---------------------------- MODULE Spec2Model ----------------------------
(***************************************************************************)
(* Model of stance/run_grid_search.py: the two parameter generators        *)
(* (get_param_grid, randsample_params) and the sweep controller GridSearch *)
(* (__init__, fixed, xval, _result2csvrow).                                *)
(*                                                                         *)
(* Representation.                                                         *)
(*  - A Python dict with string keys is a TLA+ record / function on        *)
(*    strings; a Python list is a sequence.                                *)
(*  - Fractional numbers (dropout, lr, validation_split) are integers in   *)
(*    units of 1e-5: 0.1 is 10000, 0.0001 is 10, 1e-5 is 1.                 *)
(*  - Scores (fmacro) are integers in percent.                             *)
(*  - A random primitive is the set of the values it can return; a         *)
(*    uniform real draw is discretised to sample points of its interval.   *)
(*  - A raised exception is the string naming it.                          *)
(***************************************************************************)
EXTENDS Integers, Sequences, FiniteSets, TLC

VARIABLES
    pc,          \* position of the program
    model,       \* the model name given by the caller
    err,         \* the exception that ended the program, "" when none
    \* ---- generators run on their own
    g_idx,       \* itertools.product odometer of ParameterGrid.__iter__
    g_cur,       \* the ParameterSet yielded last
    g_count,     \* number of ParameterSets yielded so far
    r_out,       \* the value returned by randsample_params
    \* ---- GridSearch
    rand,        \* self.rand (0 stands for None)
    repeat,      \* self.repeat
    cv,          \* self.cv
    param_grid,  \* self.param_grid (its dicts are mutated by pop)
    generated,   \* the ParameterSpace as the generator returned it
    csvf,        \* self._csvf: "unopened", "open" or "closed"
    header,      \* fieldnames of self.writer
    rows,        \* the row dicts written by self.writer.writerow
    calls,       \* log of the calls of run_fixed_fast / run_xval
    loads,       \* log of the calls of load_data
    idx,         \* position of `params` in self.param_grid (for loop)
    i,           \* repetition counter of fixed
    profile,     \* local `profile` of fixed / xval
    params,      \* local `params` (the dict after pop)
    fmacro_list  \* local `fmacro_list`

vars == <<pc, model, err, g_idx, g_cur, g_count, r_out, rand, repeat, cv,
          param_grid, generated, csvf, header, rows, calls, loads, idx, i,
          profile, params, fmacro_list>>

genVars == <<g_idx, g_cur, g_count, r_out>>

sweepVars == <<rand, repeat, cv, param_grid, generated, csvf, header, rows,
               calls, loads, idx, i, profile, params, fmacro_list>>

-----------------------------------------------------------------------------
(* Values and small helpers *)

\* m * 10^e as a number of 1e-5 units (e in -5..0)
Dec(m, e) == m * 10 ^ (5 + e)

\* Python: x in list
InList(x, list) == \E n \in DOMAIN list : list[n] = x

\* Python: list.index(x)
IndexOf(x, list) == CHOOSE n \in DOMAIN list : list[n] = x /\ \A m \in 1..(n - 1) : list[m] # x

RECURSIVE ProdLen(_, _)
\* product of the lengths of the lists of dict d over the keys in ks
ProdLen(d, ks) == IF ks = {} THEN 1
                  ELSE LET k == CHOOSE x \in ks : TRUE
                       IN Len(d[k]) * ProdLen(d, ks \ {k})

\* dict d without key k, the effect of d.pop(k, None) on d
Without(d, k) == [x \in (DOMAIN d) \ {k} |-> d[x]]

\* dict.update: the entries of e override those of d
Update(d, e) == [x \in (DOMAIN d) \cup (DOMAIN e) |-> IF x \in DOMAIN e THEN e[x] ELSE d[x]]

NotImplementedError == "NotImplementedError"
ValueError == "ValueError"
TrainingError == "TrainingError"

\* outcome of a call: the exception raised, or the value returned
Raise(e) == [exc |-> e]
Return(v) == [exc |-> "", value |-> v]
Raised(r) == r.exc # ""

\* the alias lists of the three model families
CrossnetNames == <<"crossnet", "cn", "CrossNet", "crossNet">>
MemnetNames == <<"memnet", "MemNet", "mn", "memNet", "AttNet", "attnet">>
TransformerNames == <<"tf", "transformer", "Transformer">>

Supported(m) == InList(m, CrossnetNames) \/ InList(m, MemnetNames) \/ InList(m, TransformerNames)

\* names outside the three alias lists a caller may pass
OtherNames == {"svm", "Crossnet", "bert"}

ModelNames == {CrossnetNames[n] : n \in DOMAIN CrossnetNames}
              \cup {MemnetNames[n] : n \in DOMAIN MemnetNames}
              \cup {TransformerNames[n] : n \in DOMAIN TransformerNames}
              \cup OtherNames

-----------------------------------------------------------------------------
(* get_param_grid *)

grid_generic ==
    [max_vocabsize |-> <<100000, 200000, 300000>>,
     max_seqlen |-> <<20, 40>>,
     max_tgtlen |-> <<1>>,
     profile |-> <<FALSE, TRUE>>,
     max_prflen |-> <<20, 40>>,
     dropout |-> <<Dec(1, -1), Dec(3, -1), Dec(6, -1), Dec(9, -1)>>,
     lr |-> <<Dec(1, -1), Dec(1, -2), Dec(1, -3), Dec(1, -4)>>,
     validation_split |-> <<Dec(2, -1)>>,
     epochs |-> <<200>>,
     batch_size |-> <<32, 64, 128, 256>>,
     patience |-> <<30>>]

grid_crossnet ==
    [dim_lstm |-> <<100, 200, 300>>,
     num_reason |-> <<1, 2, 3>>,
     dim_dense |-> <<100, 200, 300>>]

grid_memnet ==
    [dim_lstm |-> <<100, 200, 300>>,
     num_layers |-> <<1, 2, 3, 4>>]

grid_transformer ==
    [target |-> <<FALSE, TRUE>>,
     num_head |-> <<2, 4, 8>>,
     num_layers |-> <<1, 2, 3, 4>>]

\* the memnet branch forgets num_layers
grid_param_combs_memnet_short(modelname) ==
    IF InList(modelname, CrossnetNames) THEN Return(Update(grid_generic, grid_crossnet))
    ELSE IF InList(modelname, MemnetNames) THEN Return(Update(grid_generic, [dim_lstm |-> grid_memnet.dim_lstm]))
    ELSE IF InList(modelname, TransformerNames) THEN Return(Update(grid_generic, grid_transformer))
    ELSE Raise(NotImplementedError)

\* the transformer branch forgets target
grid_param_combs_no_target(modelname) ==
    IF InList(modelname, CrossnetNames) THEN Return(Update(grid_generic, grid_crossnet))
    ELSE IF InList(modelname, MemnetNames) THEN Return(Update(grid_generic, grid_memnet))
    ELSE IF InList(modelname, TransformerNames) THEN Return(Update(grid_generic, Without(grid_transformer, "target")))
    ELSE Raise(NotImplementedError)

\* param_combs of get_param_grid after the branch on modelname
grid_param_combs(modelname) ==
    IF InList(modelname, CrossnetNames) THEN Return(Update(grid_generic, grid_crossnet))
    ELSE IF InList(modelname, MemnetNames) THEN Return(Update(grid_generic, grid_memnet))
    ELSE IF InList(modelname, TransformerNames) THEN Return(Update(grid_generic, grid_transformer))
    ELSE Raise(NotImplementedError)

\* sorted() over every key a param_combs can hold
KeyOrder ==
    <<"batch_size", "dim_dense", "dim_lstm", "dropout", "epochs", "lr",
      "max_prflen", "max_seqlen", "max_tgtlen", "max_vocabsize", "num_head",
      "num_layers", "num_reason", "patience", "profile", "target",
      "validation_split">>

\* ParameterGrid.__iter__: keys of sorted(p.items())
SortedKeys(combs) == SelectSeq(KeyOrder, LAMBDA k : k \in DOMAIN combs)

\* itertools.product: the first index vector
ProductFirst(combs) == [n \in 1..Len(SortedKeys(combs)) |-> 1]

\* ParameterGrid.__iter__: dict(zip(keys, v)) at index vector ix
ProductItem(combs, ix) ==
    LET ks == SortedKeys(combs)
    IN [k \in DOMAIN combs |-> combs[k][ix[IndexOf(k, ks)]]]

\* positions of the odometer that can still advance
ProductOpen(combs, ix) ==
    LET ks == SortedKeys(combs)
    IN {n \in 1..Len(ks) : ix[n] < Len(combs[ks[n]])}

\* itertools.product exhausted after index vector ix
ProductLast(combs, ix) == ProductOpen(combs, ix) = {}

\* itertools.product: the rightmost open position advances, those after it restart
ProductNext(combs, ix) ==
    LET j == CHOOSE n \in ProductOpen(combs, ix) : \A m \in ProductOpen(combs, ix) : m <= n
    IN [n \in 1..Len(ix) |-> IF n < j THEN ix[n] ELSE IF n = j THEN ix[n] + 1 ELSE 1]

RECURSIVE ProductList(_, _)
\* list(ParameterGrid(combs)) from index vector ix on
ProductList(combs, ix) ==
    IF ProductLast(combs, ix) THEN <<ProductItem(combs, ix)>>
    ELSE <<ProductItem(combs, ix)>> \o ProductList(combs, ProductNext(combs, ix))

\* get_param_grid(modelname): the list of ParameterSets, or the error raised
get_param_grid(modelname) ==
    LET combs == grid_param_combs(modelname)
    IN IF Raised(combs) THEN combs
       ELSE Return(ProductList(combs.value, ProductFirst(combs.value)))

-----------------------------------------------------------------------------
(* randsample_params *)

\* numpy.random.choice(list): the values it can return
choice(list) == {list[n] : n \in DOMAIN list}

\* a randint whose upper end is inclusive, as Python's random.randint
randint_inclusive(low, high) == low..high

\* numpy.random.randint(low, high): the values it can return, high excluded
randint(low, high) == low..(high - 1)

\* numpy.random.uniform(low, high), a real of [low, high): sample points
uniform(low, high) == {low, (low + high) \div 2, high - 1}

\* lines 68-83: the generic draws
rand_generic ==
    [max_vocabsize : {10000},
     max_seqlen : choice(<<20, 40>>),
     max_tgtlen : {1},
     profile : choice(<<FALSE, TRUE>>),
     prf_cat : choice(<<FALSE, TRUE>>),
     max_prflen : choice(<<20, 40>>),
     dropout : uniform(Dec(1, -1), Dec(5, -1)),
     lr : {Dec(1, u) : u \in uniform(-5, -1)},
     validation_split : {Dec(2, -1)},
     epochs : {200},
     batch_size : {2 ^ n : n \in randint(5, 9)},
     patience : {30}]

\* lines 85-88
rand_crossnet ==
    [dim_lstm : {100 * n : n \in randint(1, 6)},
     num_reason : {1},
     dim_dense : {100 * n : n \in randint(1, 6)}]

\* lines 90-92
rand_memnet ==
    [dim_lstm : {100 * n : n \in randint(1, 6)},
     num_layers : randint(1, 5),
     weight_tying : choice(<<FALSE, TRUE>>)]

\* lines 96-101
rand_transformer ==
    [target : {1},
     parallel : {1},
     num_head : {2 ^ n : n \in randint(1, 4)},
     num_layers : randint(1, 5)]

\* lines 84-103: the branch on modelname
rand_family(modelname) ==
    IF InList(modelname, CrossnetNames) THEN rand_crossnet
    ELSE IF InList(modelname, MemnetNames) THEN rand_memnet
    ELSE IF InList(modelname, TransformerNames) THEN rand_transformer
    ELSE {}

\* the dicts built from generic draws g and family draws f; with no family the
\* else branch raises
rand_outcomes(generic, family) ==
    IF family = {} THEN {Raise(NotImplementedError)}
    ELSE {Return(Update(g, f)) : g \in generic, f \in family}

\* randsample_params(modelname): every outcome the random draws allow
randsample_params(modelname) == rand_outcomes(rand_generic, rand_family(modelname))

\* insertion order of the keys of the dict randsample_params returns
rand_keys(modelname) ==
    <<"max_vocabsize", "max_seqlen", "max_tgtlen", "profile", "prf_cat",
      "max_prflen", "dropout", "lr", "validation_split", "epochs",
      "batch_size", "patience">>
    \o (IF InList(modelname, CrossnetNames) THEN <<"dim_lstm", "num_reason", "dim_dense">>
        ELSE IF InList(modelname, MemnetNames) THEN <<"dim_lstm", "num_layers", "weight_tying">>
        ELSE <<"target", "parallel", "num_head", "num_layers">>)

-----------------------------------------------------------------------------
(* GridSearch: helpers *)

\* bounds of the inputs explored
MaxRand == 2
MaxRepeat == 2
MaxCv == 2

\* the scores (percent) a training run may report
Scores == {40, 80}

\* a Python value that may be None: <<>> is None, <<v>> is v
None == <<>>
Some(v) == <<v>>

\* truth value of `profile` in `if profile:`
Truthy(opt) == opt # None /\ opt[1] = TRUE

\* filter_useless_combs(params)
filter_useless_combs(p) == FALSE

\* d.pop(k, None): the value returned
Pop(d, k) == IF k \in DOMAIN d THEN Some(d[k]) ELSE None

RECURSIVE SumSeq(_)
SumSeq(l) == IF l = <<>> THEN 0 ELSE Head(l) + SumSeq(Tail(l))

\* np.average(l) as the exact fraction <<sum, n>>; <<0, 0>> is nan (empty list)
Average(l) == <<SumSeq(l), Len(l)>>

\* np.std(l), given by the population variance it is the square root of, as the
\* exact fraction <<n * sum of squares - sum^2, n^2>>; <<0, 0>> is nan
Std(l) == <<Len(l) * SumSeq([n \in DOMAIN l |-> l[n] * l[n]]) - SumSeq(l) * SumSeq(l),
            Len(l) * Len(l)>>

\* f'fmacro_{n}'
ScoreCol(n) == "fmacro_" \o ToString(n)

\* lines 174-176: the fieldnames of the csv writer
Header(keys, rep) ==
    keys \o [n \in 1..rep |-> ScoreCol(n)] \o <<"fmacro_avg", "fmacro_std">>

\* lines 271-273: the row dict built by _result2csvrow
RowDict(p, scores) ==
    Update(Update([c \in {ScoreCol(n) : n \in DOMAIN scores} |-> scores[IndexOf(c, [n \in DOMAIN scores |-> ScoreCol(n)])]],
                  [fmacro_avg |-> Average(scores), fmacro_std |-> Std(scores)]),
           p)

\* _result2csvrow, lines 263-274: DictWriter.writerow raises ValueError for a key
\* that is no fieldname, and writing to a closed file raises ValueError
result2csvrow(fieldnames, file, p, scores) ==
    LET row == RowDict(p, scores)
    IN IF \E c \in DOMAIN row : ~InList(c, fieldnames) THEN Raise(ValueError)
       ELSE IF file # "open" THEN Raise(ValueError)
       ELSE Return(row)

\* the random outcomes explored in a sweep: every draw but `profile` takes the
\* first value of its choice list or the low end of its range
PinnedGeneric ==
    {p \in rand_generic :
        /\ p.max_seqlen = 20 /\ p.prf_cat = FALSE /\ p.max_prflen = 20
        /\ p.dropout = Dec(1, -1) /\ p.lr = Dec(1, -5) /\ p.batch_size = 32}

PinnedFamily(family) ==
    {p \in family :
        /\ ("dim_lstm" \in DOMAIN p => p.dim_lstm = 100)
        /\ ("dim_dense" \in DOMAIN p => p.dim_dense = 100)
        /\ ("num_layers" \in DOMAIN p => p.num_layers = 1)
        /\ ("weight_tying" \in DOMAIN p => p.weight_tying = FALSE)
        /\ ("num_head" \in DOMAIN p => p.num_head = 2)}

SweepOutcomes(modelname) == rand_outcomes(PinnedGeneric, PinnedFamily(rand_family(modelname)))

\* lines 166-170: the outcomes of building self.param_grid, a list of dicts with
\* the order of their keys, or the exception of the generator
BuildSpace(modelname, n) ==
    IF n # 0
    THEN {IF \E k \in 1..n : Raised(sp[k]) THEN Raise(NotImplementedError)
          ELSE [exc |-> "", value |-> [k \in 1..n |-> sp[k].value], keys |-> rand_keys(modelname)]
          : sp \in [1..n -> SweepOutcomes(modelname)]}
    ELSE {IF Raised(get_param_grid(modelname)) THEN get_param_grid(modelname)
          ELSE [exc |-> "", value |-> get_param_grid(modelname).value,
                keys |-> SortedKeys(grid_param_combs(modelname).value)]}

-----------------------------------------------------------------------------
(* get_param_grid run on its own: list(ParameterGrid(param_combs)) yields   *)
(* one ParameterSet per step                                                *)

NoDict == [none |-> TRUE]

SweepIdle ==
    /\ rand = 0 /\ repeat = 0 /\ cv = 0
    /\ param_grid = <<>> /\ generated = <<>>
    /\ csvf = "unopened" /\ header = <<>> /\ rows = <<>>
    /\ calls = <<>> /\ loads = <<>>
    /\ idx = 0 /\ i = 0 /\ profile = <<>> /\ params = NoDict
    /\ fmacro_list = <<>>

InitGrid ==
    /\ pc = "grid_call"
    /\ model \in ModelNames
    /\ err = ""
    /\ g_idx = <<>> /\ g_cur = NoDict /\ g_count = 0 /\ r_out = NoDict
    /\ SweepIdle

\* lines 25-52: the branch raises for a name outside the alias lists
GridRaise ==
    /\ pc = "grid_call"
    /\ Raised(grid_param_combs(model))
    /\ pc' = "grid_raised"
    /\ err' = grid_param_combs(model).exc
    /\ UNCHANGED <<model, genVars, sweepVars>>

\* line 54: the first ParameterSet of the product
GridFirst ==
    /\ pc = "grid_call"
    /\ ~Raised(grid_param_combs(model))
    /\ LET combs == grid_param_combs(model).value
       IN /\ g_idx' = ProductFirst(combs)
          /\ g_cur' = ProductItem(combs, g_idx')
    /\ g_count' = 1
    /\ pc' = "grid_iter"
    /\ UNCHANGED <<model, err, r_out, sweepVars>>

\* line 54: the next ParameterSet of the product
GridYield ==
    /\ pc = "grid_iter"
    /\ LET combs == grid_param_combs(model).value
       IN /\ ~ProductLast(combs, g_idx)
          /\ g_idx' = ProductNext(combs, g_idx)
          /\ g_cur' = ProductItem(combs, g_idx')
    /\ g_count' = g_count + 1
    /\ UNCHANGED <<pc, model, err, r_out, sweepVars>>

\* line 54: the product is exhausted, the list is returned
GridReturn ==
    /\ pc = "grid_iter"
    /\ ProductLast(grid_param_combs(model).value, g_idx)
    /\ pc' = "grid_returned"
    /\ UNCHANGED <<model, err, genVars, sweepVars>>

NextGrid == GridRaise \/ GridFirst \/ GridYield \/ GridReturn

SpecGrid == InitGrid /\ [][NextGrid]_vars

-----------------------------------------------------------------------------
(* randsample_params run on its own *)

InitRand ==
    /\ pc = "rand_call"
    /\ model \in ModelNames
    /\ err = ""
    /\ g_idx = <<>> /\ g_cur = NoDict /\ g_count = 0 /\ r_out = NoDict
    /\ SweepIdle

\* line 103
RandRaise ==
    /\ pc = "rand_call"
    /\ \E r \in randsample_params(model) :
          /\ Raised(r)
          /\ err' = r.exc
    /\ pc' = "rand_raised"
    /\ UNCHANGED <<model, genVars, sweepVars>>

\* line 105
RandReturn ==
    /\ pc = "rand_call"
    /\ \E r \in randsample_params(model) :
          /\ ~Raised(r)
          /\ r_out' = r.value
    /\ pc' = "rand_returned"
    /\ UNCHANGED <<model, err, g_idx, g_cur, g_count, sweepVars>>

NextRand == RandRaise \/ RandReturn

SpecRand == InitRand /\ [][NextRand]_vars

-----------------------------------------------------------------------------
(* GridSearch: construction and the two sweep operations *)

\* the model names a controller is built with: the first alias of each family
\* (the aliases of a family take the same branches, see SpecGrid and SpecRand)
\* and the names outside the alias lists
SweepNames == {CrossnetNames[1], MemnetNames[1], TransformerNames[1]} \cup OtherNames

\* The exhaustive grid of a supported model has at least 18432 ParameterSets;
\* the sweep is explored on randomised spaces (rand >= 1), and the grid path of
\* the constructor on the names for which it raises. A controller runs one
\* sweep operation (fixed or xval) in its lifetime.
Init ==
    /\ pc = "start"
    /\ model \in SweepNames
    /\ rand \in 0..MaxRand
    /\ (rand = 0 => ~Supported(model))
    /\ repeat \in 1..MaxRepeat
    /\ cv \in 1..MaxCv
    /\ err = ""
    /\ g_idx = <<>> /\ g_cur = NoDict /\ g_count = 0 /\ r_out = NoDict
    /\ param_grid = <<>> /\ generated = <<>>
    /\ csvf = "unopened" /\ header = <<>> /\ rows = <<>>
    /\ calls = <<>> /\ loads = <<>>
    /\ idx = 0 /\ i = 0 /\ profile = None /\ params = NoDict
    /\ fmacro_list = <<>>

loopVars == <<idx, i, profile, params, fmacro_list>>

\* the csv file opened before the parameter space is built
ConstructRaiseAfterOpen ==
    /\ pc = "start"
    /\ IF model = "svm" THEN err' = ValueError /\ csvf' = csvf
       ELSE /\ \E sp \in BuildSpace(model, rand) : Raised(sp) /\ err' = sp.exc
            /\ csvf' = "open"
    /\ pc' = "init_raised"
    /\ UNCHANGED <<model, genVars, rand, repeat, cv, param_grid, generated,
                   header, rows, calls, loads, loopVars>>

\* __init__, lines 139-141 and 166-170: the constructor raises
ConstructRaise ==
    /\ pc = "start"
    /\ IF model = "svm" THEN err' = ValueError
       ELSE \E sp \in BuildSpace(model, rand) : Raised(sp) /\ err' = sp.exc
    /\ pc' = "init_raised"
    /\ UNCHANGED <<model, genVars, rand, repeat, cv, param_grid, generated, csvf,
                   header, rows, calls, loads, loopVars>>

\* __init__, lines 139-178
Construct ==
    /\ pc = "start"
    /\ model # "svm"
    /\ \E sp \in BuildSpace(model, rand) :
          /\ ~Raised(sp)
          /\ param_grid' = sp.value
          /\ generated' = sp.value
          /\ header' = Header(sp.keys, repeat)
    /\ csvf' = "open"
    /\ pc' = "ready"
    /\ UNCHANGED <<model, err, genVars, rand, repeat, cv, rows, calls, loads, loopVars>>

\* one call of load_data(fp, target='all', profile=p)
Load(fp, p) == [fp |-> fp, profile |-> p]

\* fixed, lines 187-201
CallFixed ==
    /\ pc = "ready"
    /\ loads' = loads \o <<Load("trainfp", FALSE), Load("trainfp", TRUE),
                            Load("testfp", FALSE), Load("testfp", TRUE)>>
    /\ pc' = "fixed_for"
    /\ UNCHANGED <<model, err, genVars, rand, repeat, cv, param_grid, generated, csvf,
                   header, rows, calls, loopVars>>

\* the profile flag read with get instead of pop: the key stays in the dict
ForNextGet(body) ==
    /\ idx < Len(param_grid)
    /\ idx' = idx + 1
    /\ profile' = Pop(param_grid[idx'], "profile")
    /\ params' = param_grid[idx']
    /\ fmacro_list' = <<>>
    /\ i' = 0
    /\ pc' = body
    /\ UNCHANGED <<model, err, genVars, rand, repeat, cv, param_grid, generated, csvf,
                   header, rows, calls, loads>>

\* lines 202-208 and 247-251: the loop takes the next ParameterSet, pops its
\* profile flag (the dict of self.param_grid itself loses the key)
ForNext(body) ==
    /\ idx < Len(param_grid)
    /\ idx' = idx + 1
    /\ IF filter_useless_combs(param_grid[idx'])
       THEN UNCHANGED <<pc, param_grid, profile, params, fmacro_list, i>>
       ELSE /\ profile' = Pop(param_grid[idx'], "profile")
            /\ params' = Without(param_grid[idx'], "profile")
            /\ param_grid' = [param_grid EXCEPT ![idx'] = Without(@, "profile")]
            /\ fmacro_list' = <<>>
            /\ i' = 0
            /\ pc' = body
    /\ UNCHANGED <<model, err, genVars, rand, repeat, cv, generated, csvf, header,
                   rows, calls, loads>>

\* fixed, lines 202-208
FixedFor == pc = "fixed_for" /\ ForNext("fixed_rep")

\* one call of a training routine as the log keeps it
Call(fn, data, raised, scores) ==
    [fn |-> fn, set |-> idx, data |-> data, profile |-> profile, params |-> params,
     raised |-> raised, scores |-> scores]

\* which of the two loaded variants is passed
Variant == IF Truthy(profile) THEN "profile" ELSE "no-profile"

\* the row written inside the repetition loop
FixedRunWritesRow ==
    /\ pc = "fixed_rep"
    /\ i < repeat
    /\ \E fmacro \in Scores :
          /\ calls' = Append(calls, Call("run_fixed_fast", Variant, FALSE, <<fmacro>>))
          /\ fmacro_list' = Append(fmacro_list, fmacro)
          /\ rows' = Append(rows, RowDict(params, fmacro_list'))
    /\ i' = i + 1
    /\ UNCHANGED <<pc, model, err, genVars, rand, repeat, cv, param_grid, generated,
                   csvf, header, loads, idx, profile, params>>

\* fixed, lines 209-224: one repetition, run_fixed_fast returns a score
FixedRun ==
    /\ pc = "fixed_rep"
    /\ i < repeat
    /\ \E fmacro \in Scores :
          /\ calls' = Append(calls, Call("run_fixed_fast", Variant, FALSE, <<fmacro>>))
          /\ fmacro_list' = Append(fmacro_list, fmacro)
    /\ i' = i + 1
    /\ UNCHANGED <<pc, model, err, genVars, rand, repeat, cv, param_grid, generated,
                   csvf, header, rows, loads, idx, profile, params>>

\* the exception of run_fixed_fast caught, the loop goes on with the next set
FixedRunRaiseSwallowed ==
    /\ pc = "fixed_rep"
    /\ i < repeat
    /\ calls' = Append(calls, Call("run_fixed_fast", Variant, TRUE, <<>>))
    /\ pc' = "fixed_for"
    /\ UNCHANGED <<model, err, genVars, rand, repeat, cv, param_grid, generated, csvf,
                   header, rows, loads, loopVars>>

\* fixed, lines 213-223: run_fixed_fast raises, nothing catches it
FixedRunRaise ==
    /\ pc = "fixed_rep"
    /\ i < repeat
    /\ calls' = Append(calls, Call("run_fixed_fast", Variant, TRUE, <<>>))
    /\ err' = TrainingError
    /\ pc' = "failed"
    /\ UNCHANGED <<model, genVars, rand, repeat, cv, param_grid, generated, csvf,
                   header, rows, loads, loopVars>>

\* lines 225 and 260: self._result2csvrow(params, fmacro_list)
WriteRow(next) ==
    LET r == result2csvrow(header, csvf, params, fmacro_list)
    IN /\ IF Raised(r)
          THEN /\ err' = r.exc
               /\ pc' = "failed"
               /\ rows' = rows
          ELSE /\ rows' = Append(rows, r.value)
               /\ pc' = next
               /\ err' = err
       /\ UNCHANGED <<model, genVars, rand, repeat, cv, param_grid, generated, csvf,
                      header, calls, loads, loopVars>>

\* fixed, line 225
FixedRow == pc = "fixed_rep" /\ i >= repeat /\ WriteRow("fixed_for")

\* the sweep returns without closing the file
CloseForgotten ==
    /\ idx >= Len(param_grid)
    /\ pc' = "done"
    /\ UNCHANGED <<model, err, genVars, rand, repeat, cv, param_grid, generated, csvf,
                   header, rows, calls, loads, loopVars>>

\* lines 226 and 261: self._csvf.close() after the loop
Close ==
    /\ idx >= Len(param_grid)
    /\ csvf' = "closed"
    /\ pc' = "done"
    /\ UNCHANGED <<model, err, genVars, rand, repeat, cv, param_grid, generated,
                   header, rows, calls, loads, loopVars>>

\* fixed, line 226
FixedClose == pc = "fixed_for" /\ Close

\* xval, lines 234-246
CallXval ==
    /\ pc = "ready"
    /\ loads' = loads \o <<Load("datafp", FALSE), Load("datafp", TRUE)>>
    /\ pc' = "xval_for"
    /\ UNCHANGED <<model, err, genVars, rand, repeat, cv, param_grid, generated, csvf,
                   header, rows, calls, loopVars>>

\* xval, lines 247-251
XvalFor == pc = "xval_for" /\ ForNext("xval_run")

\* run_xval(..., cv=self.cv, ...) returns one score per fold
RunXvalScores(folds) == [1..folds -> Scores]

\* xval, lines 252-259: run_xval returns the score list
XvalRun ==
    /\ pc = "xval_run"
    /\ \E scores \in RunXvalScores(cv) :
          /\ calls' = Append(calls, Call("run_xval", Variant, FALSE, scores))
          /\ fmacro_list' = scores
    /\ pc' = "xval_row"
    /\ UNCHANGED <<model, err, genVars, rand, repeat, cv, param_grid, generated,
                   csvf, header, rows, loads, idx, i, profile, params>>

\* xval, lines 252-259: run_xval raises, nothing catches it
XvalRunRaise ==
    /\ pc = "xval_run"
    /\ calls' = Append(calls, Call("run_xval", Variant, TRUE, <<>>))
    /\ err' = TrainingError
    /\ pc' = "failed"
    /\ UNCHANGED <<model, genVars, rand, repeat, cv, param_grid, generated, csvf,
                   header, rows, loads, loopVars>>

\* xval, line 260
XvalRow == pc = "xval_row" /\ WriteRow("xval_for")

\* xval, line 261
XvalClose == pc = "xval_for" /\ Close

Next ==
    \/ ConstructRaise \/ Construct
    \/ CallFixed \/ FixedFor \/ FixedRun \/ FixedRunRaise \/ FixedRow \/ FixedClose
    \/ CallXval \/ XvalFor \/ XvalRun \/ XvalRunRaise \/ XvalRow \/ XvalClose

Spec == Init /\ [][Next]_vars

-----------------------------------------------------------------------------
(* Properties *)

\* the candidate lists added for the family of a supported model name
FamilyLists(m) ==
    IF InList(m, CrossnetNames) THEN grid_crossnet
    ELSE IF InList(m, MemnetNames) THEN grid_memnet
    ELSE grid_transformer

RECURSIVE RankFrom(_, _, _, _)
\* mixed-radix number of the values of item d in the candidate lists, over keys ks
RankFrom(d, combs, ks, acc) ==
    IF ks = <<>> THEN acc
    ELSE RankFrom(d, combs, Tail(ks),
                  acc * Len(combs[Head(ks)]) + (IndexOf(d[Head(ks)], combs[Head(ks)]) - 1))

\* the rank of a ParameterSet, a function of its values alone
ValueRank(d) ==
    LET combs == grid_param_combs(model).value
    IN RankFrom(d, combs, SortedKeys(combs), 0)

GridYielding == pc = "grid_iter" \/ pc = "grid_returned"

\* C1: for every supported model name the number of ParameterSets get_param_grid
\* returns is the product of the lengths of the generic candidate lists and of
\* the lists added for the family, and no two of them are equal: the n-th set
\* yielded has value rank n - 1, so sets yielded at different steps differ.
C1_GridSizeIsProduct ==
    /\ GridYielding =>
          /\ Supported(model)
          /\ ValueRank(g_cur) = g_count - 1
    /\ pc = "grid_returned" =>
          g_count = ProdLen(grid_generic, DOMAIN grid_generic)
                    * ProdLen(FamilyLists(model), DOMAIN FamilyLists(model))

C1_Witness ==
    /\ pc = "grid_returned"
    /\ InList(model, CrossnetNames)
    /\ g_count = 41472

GenericKeys ==
    {"max_vocabsize", "max_seqlen", "max_tgtlen", "profile", "max_prflen", "dropout",
     "lr", "validation_split", "epochs", "batch_size", "patience"}

\* C2: every ParameterSet get_param_grid yields has exactly the keys of its
\* family: the eleven generic keys plus dim_lstm, num_reason, dim_dense
\* (crossnet), dim_lstm, num_layers (memnet), target, num_head, num_layers
\* (transformer).
C2_GridKeySet ==
    GridYielding =>
       /\ Cardinality(GenericKeys) = 11
       /\ InList(model, CrossnetNames) =>
             DOMAIN g_cur = GenericKeys \cup {"dim_lstm", "num_reason", "dim_dense"}
       /\ InList(model, MemnetNames) =>
             DOMAIN g_cur = GenericKeys \cup {"dim_lstm", "num_layers"}
       /\ InList(model, TransformerNames) =>
             DOMAIN g_cur = GenericKeys \cup {"target", "num_head", "num_layers"}

C2_Witness ==
    /\ pc = "grid_iter"
    /\ InList(model, TransformerNames)
    /\ g_count > 1
    /\ g_cur.target = TRUE

\* C3: for a model name outside the three alias lists both generators raise
\* NotImplementedError, and the constructor fails ('svm': ValueError, any other
\* such name: NotImplementedError) before the sweep starts: the csv file is
\* never opened, no header is written, no data is loaded and no training or
\* cross-validation call is made.
C3_UnsupportedModelRaises ==
    ~Supported(model) =>
       /\ get_param_grid(model) = Raise(NotImplementedError)
       /\ randsample_params(model) = {Raise(NotImplementedError)}
       /\ pc \in {"start", "init_raised"}
       /\ csvf = "unopened" /\ header = <<>> /\ rows = <<>>
       /\ calls = <<>> /\ loads = <<>>
       /\ pc = "init_raised" =>
             err = IF model = "svm" THEN ValueError ELSE NotImplementedError

C3_Witness ==
    /\ pc = "init_raised"
    /\ model = "bert"
    /\ rand > 0
    /\ err = NotImplementedError

Mode == IF loads = <<>> THEN "none"
        ELSE IF loads[1].fp = "trainfp" THEN "fixed" ELSE "xval"

NoCallRaised == \A n \in DOMAIN calls : ~calls[n].raised

RECURSIVE Flatten(_)
Flatten(ss) == IF ss = <<>> THEN <<>> ELSE Head(ss) \o Flatten(Tail(ss))

\* the scores the training calls made for ParameterSet j returned, in call order
ScoresOfSet(j) ==
    LET cs == SelectSeq(calls, LAMBDA c : c.set = j /\ ~c.raised)
    IN Flatten([n \in DOMAIN cs |-> cs[n].scores])

\* C5: in fixed, while no training call fails, the ParameterSets are taken in
\* the order of the space, run_fixed_fast is called exactly `repeat` times for
\* each, then exactly one row holding those `repeat` scores is written before
\* the next set is started; at the end there are as many rows as ParameterSets
\* and `repeat` times as many training calls.
C5_FixedRepeatsThenRow ==
    (Mode = "fixed" /\ NoCallRaised) =>
       /\ \A n \in DOMAIN calls :
             /\ calls[n].fn = "run_fixed_fast"
             /\ calls[n].set = ((n - 1) \div repeat) + 1
             /\ calls[n].params = Without(generated[calls[n].set], "profile")
       /\ pc = "fixed_rep" =>
             /\ Len(rows) = idx - 1
             /\ Len(calls) = (idx - 1) * repeat + i
             /\ i <= repeat
       /\ pc = "fixed_for" => Len(rows) = idx /\ Len(calls) = idx * repeat
       /\ pc = "done" =>
             /\ Len(rows) = Len(generated)
             /\ Len(calls) = Len(generated) * repeat
       /\ pc # "failed"
       /\ \A j \in DOMAIN rows :
             /\ Len(ScoresOfSet(j)) = repeat
             /\ \A n \in 1..repeat :
                   /\ ScoreCol(n) \in DOMAIN rows[j]
                   /\ rows[j][ScoreCol(n)] = calls[(j - 1) * repeat + n].scores[1]
             /\ \A n \in 1..(repeat + 1) : ScoreCol(repeat + n) \notin DOMAIN rows[j]

C5_Witness ==
    /\ Mode = "fixed" /\ NoCallRaised
    /\ pc = "done"
    /\ repeat = 2
    /\ Len(rows) = 2
    /\ Len(calls) = 4
    /\ rows[1].fmacro_1 # rows[1].fmacro_2

\* C6 (as claimed): in xval, for every `repeat` and every `cv`, each ParameterSet
\* causes exactly one call of run_xval and exactly one row, whose score columns
\* are all columns of the header, so that writing the row succeeds.
C6_XvalRowAlwaysWritten ==
    Mode = "xval" =>
       /\ \A n \in DOMAIN calls : calls[n].fn = "run_xval" /\ calls[n].set = n
       /\ err # ValueError
       /\ \A j \in DOMAIN rows : \A c \in DOMAIN rows[j] : InList(c, header)
       /\ (pc = "xval_for" /\ NoCallRaised) => Len(rows) = idx /\ Len(calls) = idx
       /\ (pc = "done" /\ NoCallRaised) =>
             Len(rows) = Len(generated) /\ Len(calls) = Len(generated)

\* C7 (as claimed): every row written carries the value of every parameter of
\* its ParameterSet as generated, the profile column included, together with
\* the scores, their average and their standard deviation.
C7_RowCarriesEveryParameter ==
    \A j \in DOMAIN rows :
       /\ \A k \in DOMAIN generated[j] :
             k \in DOMAIN rows[j] /\ rows[j][k] = generated[j][k]
       /\ rows[j].fmacro_avg = Average(ScoresOfSet(j))
       /\ rows[j].fmacro_std = Std(ScoresOfSet(j))

\* C8: when a training call raises for a ParameterSet, the exception ends the
\* sweep: the raising call is the last call ever made, no row is written for
\* that set or a later one, and the rows of the earlier sets are the rows
\* written for them.
C8_TrainingFailureAborts ==
    \A n \in DOMAIN calls :
       calls[n].raised =>
          /\ n = Len(calls)
          /\ pc = "failed" /\ err = TrainingError
          /\ idx = calls[n].set
          /\ Len(rows) = calls[n].set - 1
          /\ \A j \in DOMAIN rows :
                rows[j] = RowDict(Without(generated[j], "profile"), ScoresOfSet(j))

C8_Witness ==
    /\ pc = "failed"
    /\ calls # <<>>
    /\ calls[Len(calls)].raised
    /\ calls[Len(calls)].set = 2
    /\ Len(rows) = 1

Ended == pc = "done" \/ pc = "failed"

\* C9 (as claimed): whenever a sweep operation ends the csv file is closed.
C9_ClosedWheneverSweepEnds == Ended => csvf = "closed"

\* C9 (amended): the csv file is opened by the constructor and by nothing else,
\* a row is written only while it is open, it is closed when fixed or xval
\* returns, and it is still open when fixed or xval ends by an exception; once
\* closed it stays closed.
C9_ClosedOnReturn ==
    [][/\ (csvf # csvf' /\ csvf' = "open") => (pc = "start" /\ pc' = "ready" /\ csvf = "unopened")
       /\ rows' # rows => (csvf = "open" /\ csvf' = "open")
       /\ pc' = "done" => csvf' = "closed"
       /\ pc' = "failed" => csvf' = "open"
       /\ pc' = "ready" => csvf' = "open"
       /\ csvf = "closed" => csvf' = "closed"]_vars

C9_Witness ==
    /\ pc = "done"
    /\ csvf = "closed"
    /\ Len(rows) = 2

AllLoads(fps) == {Load(fp, p) : fp \in fps, p \in BOOLEAN}

\* C10: the data is loaded once per file and variant before the loop, whatever
\* the size of the ParameterSpace; every training call gets the params mapping
\* of its ParameterSet without the key profile, and the 'profile' data variant
\* exactly when the profile flag of the ParameterSet as generated is true.
C10_ProfileSelectsVariant ==
    /\ Mode = "fixed" =>
          /\ Len(loads) = 4
          /\ {loads[n] : n \in DOMAIN loads} = AllLoads({"trainfp", "testfp"})
    /\ Mode = "xval" =>
          /\ Len(loads) = 2
          /\ {loads[n] : n \in DOMAIN loads} = AllLoads({"datafp"})
    /\ calls # <<>> => Mode # "none"
    /\ \A n \in DOMAIN calls :
          /\ "profile" \notin DOMAIN calls[n].params
          /\ calls[n].params = Without(generated[calls[n].set], "profile")
          /\ calls[n].data = "profile" <=> generated[calls[n].set].profile = TRUE
          /\ calls[n].profile = Some(generated[calls[n].set].profile)

C10_Witness ==
    /\ Len(loads) = 4
    /\ Len(calls) >= 2
    /\ calls[1].data = "profile"
    /\ calls[Len(calls)].data = "no-profile"

=============================================================================
